---- MODULE Spec2Model ----
(***************************************************************************)
(* Model of hcsr04sensor/sensor_96boards.py: class Measurement, its        *)
(* constructor, raw_distance and the four conversion helpers.              *)
(*                                                                         *)
(* Reading of the source.  Line 83, `with GPIO(self.pins) as GPIO`, lacks  *)
(* its colon and rebinds the imported name GPIO.  The model reads it as    *)
(* the evident with-statement: the pin pair is acquired on entry of the    *)
(* block, the handle drives digital_write / digital_read, and the pair is  *)
(* released when the block is left, by return or by exception.             *)
(*                                                                         *)
(* Numbers.  Python floats are modelled in fixed point:                    *)
(*   temperature      in 1/TempScale degree,                               *)
(*   speed_of_sound   in 0.1 m/s,                                          *)
(*   time.time()      in ticks of 200 microseconds,                        *)
(*   distances        in 0.001 cm (ticks * speed in 0.1 m/s),              *)
(*   helper values    in 0.000001 (unit of the helper).                    *)
(***************************************************************************)
EXTENDS Integers, Sequences, FiniteSets, TLC

VARIABLES
    trig_pin, echo_pin, temperature, unit, round_to, pins,  \* fields of the object
    pc,                  \* position of the single caller thread
    sample_size,         \* argument of the running raw_distance call
    speed_of_sound, sample, distance_reading, echo_status_counter,
    sonar_signal_off, sonar_signal_on,                      \* locals of raw_distance
    now,                 \* the clock behind time.time()
    held,                \* the pin pair is acquired (inside the with block)
    trig_level,          \* last level written to the trigger pin
    echo,                \* last level read from the echo pin
    io_touched,          \* the running/last call has used the GPIO capability
    low_reads,           \* echo reads made by the current low-phase wait
    writes,              \* trigger writes made by the running/last call
    outcome, result,     \* how the last operation ended and what it returned
    calls,               \* raw_distance calls started so far
    temperature0,        \* the temperature given to the constructor
    pre,                 \* the fields as they were when the last call started
    used,                \* per call, the temperature line 80 has read
    conv,                \* last conversion helper call: op, arguments, value
    poll_phase,          \* alternates with every read of 1 in the high-phase wait
    last_io,             \* last digital_write / digital_read: op, pin, level
    off_from, on_from,   \* the running sample, once its loop has assigned
                         \* sonar_signal_off / _on; Unbound until then
    \* two callers of raw_distance on one object (specification SpecTwo)
    cpc,                 \* position of each caller
    cheld,               \* the caller's with block has the pin pair acquired
    cleft,               \* iterations of the for loop the caller has still to run
    ctrig,               \* last level written to the trigger pin, by either caller
    cforeign,            \* the other caller wrote the trigger during this caller's waits
    ccount,              \* calls each caller has started
    covl                 \* two calls have been running at the same time

vars == << trig_pin, echo_pin, temperature, unit, round_to, pins, pc, sample_size,
           speed_of_sound, sample, distance_reading, echo_status_counter,
           sonar_signal_off, sonar_signal_on, now, held, trig_level, echo,
           io_touched, low_reads, writes, outcome, result, calls, temperature0,
           pre, used, conv, poll_phase, last_io, off_from, on_from,
           cpc, cheld, cleft, ctrig, cforeign, ccount, covl >>

seqVars == << trig_pin, echo_pin, temperature, unit, round_to, pins, pc, sample_size,
              speed_of_sound, sample, distance_reading, echo_status_counter,
              sonar_signal_off, sonar_signal_on, now, held, trig_level, echo,
              io_touched, low_reads, writes, outcome, result, calls, temperature0,
              pre, used, conv, poll_phase, last_io, off_from, on_from >>

concVars == << cpc, cheld, cleft, ctrig, cforeign, ccount, covl >>

----------------------------------------------------------------------------
(* Bounds of the model *)

MaxSampleSize == 3
MaxCalls == 2
MaxTime == 2

(* Fixed-point scale of temperatures: 0.5556 is FahrenheitFactor / TempScale *)
TempScale == 10000

(* Inputs *)
\* constructor arguments <<trig_pin, echo_pin, temperature, unit, round_to>>
Configs == { << 36, 13, 20, "metric", 1 >>,
             << 36, 13, 68, "imperial", 1 >>,
             << 36, 13, 68, "kelvin", 0 >> }
Readings == {0, 1250, 2500, 171450}
HoleDepths == {0, 100000}

LOW == 0
HIGH == 1

(* A local that has not been assigned yet (timestamps are >= 0) *)
Unbound == -1

NoValue == << >>
NoIo == [op |-> "none", pin |-> 0, level |-> 0]
NoConv == [op |-> "none", median_reading |-> 0, hole_depth |-> 0, value |-> 0]

----------------------------------------------------------------------------
(* Arithmetic of raw_distance *)

\* line 73: (self.temperature - 32) * 0.5556, truncated to 1/TempScale degree
FahrenheitFactor == 5556

F2C(t) ==
    LET d == t - 32 * TempScale
    IN  (d \div TempScale) * FahrenheitFactor
            + ((d % TempScale) * FahrenheitFactor) \div TempScale

RECURSIVE SqrtBetween(_, _, _)
SqrtBetween(n, lo, hi) ==
    IF hi - lo <= 1 THEN lo
    ELSE LET mid == (lo + hi) \div 2
         IN  IF mid * mid <= n THEN SqrtBetween(n, mid, hi)
             ELSE SqrtBetween(n, lo, mid)

\* math.sqrt on a value scaled by 10^8, result scaled by 10^4
Sqrt(n) == SqrtBetween(n, 0, 16384)

\* line 80: 331.3 * math.sqrt(1 + (self.temperature / 273.15)), in 0.1 m/s
SpeedOfSound(t) ==
    LET ratio == 10000 + (t * 100) \div 27315
    IN  (3313 * Sqrt(ratio * 10000)) \div 10000

\* lines 99-100: time_passed * ((speed_of_sound * 100) / 2), in 0.001 cm
DistanceCm(on, off, speed) == (on - off) * speed

RECURSIVE Insert(_, _)
Insert(x, s) ==
    IF s = << >> THEN << x >>
    ELSE IF x <= Head(s) THEN << x >> \o s
    ELSE << Head(s) >> \o Insert(x, Tail(s))

RECURSIVE Sorted(_)
\* line 102: sorted(sample)
Sorted(s) == IF s = << >> THEN << >> ELSE Insert(Head(s), Sorted(Tail(s)))

\* the lower-middle element instead of the upper-middle one
MedianIndexLower(n) == (n - 1) \div 2

\* line 106: the index sample_size // 2 (0-based)
MedianIndex(n) == n \div 2

\* `<=` written for `<` on line 92
EchoPollLimitOffByOne == 1000 + 1

\* line 92: the bound of the low-phase wait
EchoPollLimit == 1000

----------------------------------------------------------------------------
(* Arithmetic of the helpers, in 0.000001 *)

RECURSIVE Pow10(_)
Pow10(n) == IF n = 0 THEN 1 ELSE 10 * Pow10(n - 1)

\* round(x, ndigits): nearest multiple of 10^-ndigits, ties to even
Round(x, ndigits) ==
    LET q == Pow10(6 - ndigits)
        lo == x \div q
        r == x % q
    IN  IF 2 * r < q THEN lo * q
        ELSE IF 2 * r > q THEN (lo + 1) * q
        ELSE IF lo % 2 = 0 THEN lo * q ELSE (lo + 1) * q

\* median_reading * 0.394, of a reading in 0.001 cm
InchFactor == 394

DepthMetric(median_reading, hole_depth, digits) ==
    Round(hole_depth * 1000 - median_reading * 1000, digits)

\* the factor applied to the difference instead of the reading
DepthImperialWholeScaled(median_reading, hole_depth, digits) ==
    Round((hole_depth - median_reading) * InchFactor, digits)

DepthImperial(median_reading, hole_depth, digits) ==
    Round(hole_depth * 1000 - median_reading * InchFactor, digits)

DistanceMetric(median_reading, digits) == Round(median_reading * 1000, digits)

DistanceImperial(median_reading, digits) == Round(median_reading * InchFactor, digits)

----------------------------------------------------------------------------
(* State *)

Fields == [trig_pin |-> trig_pin, echo_pin |-> echo_pin, temperature |-> temperature,
           unit |-> unit, round_to |-> round_to, pins |-> pins]

NoFields == [trig_pin |-> 0, echo_pin |-> 0, temperature |-> 0,
             unit |-> "", round_to |-> 0, pins |-> << >>]

fieldVars == << trig_pin, echo_pin, temperature, unit, round_to, pins >>
localVars == << speed_of_sound, sample, distance_reading, echo_status_counter,
                sonar_signal_off, sonar_signal_on >>

Threads == {1, 2}

\* no caller has entered raw_distance
ConcInit ==
    /\ cpc = [t \in Threads |-> "idle"]
    /\ cheld = [t \in Threads |-> FALSE]
    /\ cleft = [t \in Threads |-> 0]
    /\ ctrig = LOW
    /\ cforeign = [t \in Threads |-> FALSE]
    /\ ccount = [t \in Threads |-> 0]
    /\ covl = FALSE

\* the state before Measurement(...) is evaluated
Init ==
    /\ trig_pin = 0 /\ echo_pin = 0 /\ temperature = 0 /\ unit = ""
    /\ round_to = 0 /\ pins = << >>
    /\ pc = "new"
    /\ sample_size = 0
    /\ speed_of_sound = 0 /\ sample = << >> /\ distance_reading = 0
    /\ echo_status_counter = 0
    /\ sonar_signal_off = Unbound /\ sonar_signal_on = Unbound
    /\ now = 0
    /\ held = FALSE
    /\ trig_level = LOW
    /\ echo = LOW
    /\ io_touched = FALSE
    /\ low_reads = 0
    /\ writes = 0
    /\ outcome = "none" /\ result = NoValue
    /\ calls = 0
    /\ temperature0 = 0
    /\ pre = NoFields
    /\ used = << >>
    /\ conv = NoConv
    /\ poll_phase = 0
    /\ last_io = NoIo
    /\ off_from = Unbound /\ on_from = Unbound
    /\ ConcInit

\* time.time() may have advanced by one tick since it was last looked at
Clock == { t \in {now, now + 1} : t <= MaxTime }

----------------------------------------------------------------------------
(* Measurement.__init__, lines 22-37 *)

\* a constructor that already sets the pins up
ConstructTouchingPins ==
    /\ pc = "new"
    /\ \E c \in Configs :
          /\ trig_pin' = c[1]
          /\ echo_pin' = c[2]
          /\ temperature' = c[3] * TempScale
          /\ temperature0' = c[3] * TempScale
          /\ unit' = c[4]
          /\ round_to' = c[5]
          /\ pins' = << << c[1], "out" >>, << c[2], "in" >> >>
    /\ pc' = "idle"
    /\ outcome' = "constructed"
    /\ io_touched' = TRUE
    /\ UNCHANGED << concVars, poll_phase, last_io, off_from, on_from, writes, sample_size, localVars, now, held, trig_level, echo,
                    low_reads, result, calls, pre, used, conv >>

Construct ==
    /\ pc = "new"
    /\ \E c \in Configs :
          /\ trig_pin' = c[1]
          /\ echo_pin' = c[2]
          /\ temperature' = c[3] * TempScale
          /\ temperature0' = c[3] * TempScale
          /\ unit' = c[4]
          /\ round_to' = c[5]
          /\ pins' = << << c[1], "out" >>, << c[2], "in" >> >>
    /\ pc' = "idle"
    /\ outcome' = "constructed"
    /\ UNCHANGED << concVars, poll_phase, last_io, off_from, on_from, writes, sample_size, localVars, now, held, trig_level, echo, io_touched,
                    low_reads, result, calls, pre, used, conv >>

----------------------------------------------------------------------------
(* Measurement.raw_distance, lines 39-106 *)

\* raw_distance(sample_size, sample_wait) is entered
Call ==
    /\ pc = "idle"
    /\ calls < MaxCalls
    /\ \E n \in 1..MaxSampleSize : sample_size' = n
    /\ calls' = calls + 1
    /\ pre' = Fields
    /\ pc' = "unit"
    /\ outcome' = "running"
    /\ result' = NoValue
    /\ io_touched' = FALSE
    /\ low_reads' = 0
    /\ writes' = 0
    /\ conv' = NoConv
    /\ speed_of_sound' = 0 /\ distance_reading' = Unbound
    /\ echo_status_counter' = 0
    /\ sonar_signal_off' = Unbound /\ sonar_signal_on' = Unbound
    /\ poll_phase' = 0
    /\ last_io' = NoIo
    /\ off_from' = Unbound /\ on_from' = Unbound
    /\ UNCHANGED << concVars, fieldVars, sample, now, held, trig_level, echo, temperature0, used >>

\* an exception leaves the function from inside the with block, or the return
\* statement does: the block's exit releases the pins first
LeaveBlock(how, value) ==
    /\ held' = FALSE
    /\ pc' = "idle"
    /\ outcome' = how
    /\ result' = value
    /\ speed_of_sound' = 0
    /\ echo_status_counter' = 0
    /\ sonar_signal_off' = Unbound /\ sonar_signal_on' = Unbound
    /\ off_from' = Unbound /\ on_from' = Unbound
    /\ poll_phase' = 0

\* lines 72-73
UnitImperial ==
    /\ pc = "unit"
    /\ unit = "imperial"
    /\ temperature' = F2C(temperature)
    /\ pc' = "speed"
    /\ UNCHANGED << concVars, poll_phase, last_io, off_from, on_from, writes, trig_pin, echo_pin, unit, round_to, pins, sample_size, localVars,
                    now, held, trig_level, echo, io_touched, low_reads, outcome,
                    result, calls, temperature0, pre, used, conv >>

\* lines 74-75
UnitMetric ==
    /\ pc = "unit"
    /\ unit = "metric"
    /\ pc' = "speed"
    /\ UNCHANGED << concVars, poll_phase, last_io, off_from, on_from, writes, fieldVars, sample_size, localVars, now, held, trig_level, echo,
                    io_touched, low_reads, outcome, result, calls, temperature0,
                    pre, used, conv >>

\* an unknown unit treated like 'metric': no raise
UnitWrongFallsThrough ==
    /\ pc = "unit"
    /\ unit # "imperial" /\ unit # "metric"
    /\ pc' = "speed"
    /\ UNCHANGED << concVars, poll_phase, last_io, off_from, on_from, writes, fieldVars, sample_size, localVars, now, held, trig_level,
                    echo, io_touched, low_reads, outcome, result, calls,
                    temperature0, pre, used, conv >>

\* lines 76-78: raise ValueError
UnitWrong ==
    /\ pc = "unit"
    /\ unit # "imperial" /\ unit # "metric"
    /\ pc' = "idle"
    /\ outcome' = "ValueError"
    /\ UNCHANGED << concVars, poll_phase, last_io, off_from, on_from, writes, fieldVars, sample_size, localVars, now, held, trig_level, echo,
                    io_touched, low_reads, result, calls, temperature0, pre, used,
                    conv >>

\* line 81 missing: the batch of the call before is kept
SpeedKeepsBatch ==
    /\ pc = "speed"
    /\ speed_of_sound' = SpeedOfSound(temperature)
    /\ used' = Append(used, temperature)
    /\ pc' = "acquire"
    /\ UNCHANGED << concVars, poll_phase, last_io, off_from, on_from, writes, fieldVars,
                    sample_size, sample, distance_reading, echo_status_counter,
                    sonar_signal_off, sonar_signal_on, now, held, trig_level, echo,
                    io_touched, low_reads, outcome, result, calls, temperature0,
                    pre, conv >>

\* lines 80-81
Speed ==
    /\ pc = "speed"
    /\ speed_of_sound' = SpeedOfSound(temperature)
    /\ used' = Append(used, temperature)
    /\ sample' = << >>
    /\ pc' = "acquire"
    /\ UNCHANGED << concVars, poll_phase, last_io, off_from, on_from, writes, fieldVars, sample_size, distance_reading, echo_status_counter,
                    sonar_signal_off, sonar_signal_on, now, held, trig_level, echo,
                    io_touched, low_reads, outcome, result, calls, temperature0,
                    pre, conv >>

\* line 83: the with block is entered, the pins of self.pins are acquired
Acquire ==
    /\ pc = "acquire"
    /\ held' = TRUE
    /\ io_touched' = TRUE
    /\ pc' = "for"
    /\ UNCHANGED << concVars, poll_phase, last_io, off_from, on_from, writes, fieldVars, sample_size, localVars, now, trig_level, echo,
                    low_reads, outcome, result, calls, temperature0, pre, used, conv >>

\* line 84: range(sample_size) yields the next index
ForNext ==
    /\ pc = "for"
    /\ distance_reading + 1 < sample_size
    /\ distance_reading' = distance_reading + 1
    /\ pc' = "trig_low"
    /\ off_from' = Unbound /\ on_from' = Unbound
    /\ UNCHANGED << concVars, poll_phase, last_io, writes, fieldVars, sample_size, speed_of_sound, sample,
                    echo_status_counter, sonar_signal_off, sonar_signal_on, now, held,
                    trig_level, echo, io_touched, low_reads, outcome, result, calls,
                    temperature0, pre, used, conv >>

\* line 84: range(sample_size) is exhausted
ForDone ==
    /\ pc = "for"
    /\ ~(distance_reading + 1 < sample_size)
    /\ pc' = "sort"
    /\ UNCHANGED << concVars, poll_phase, last_io, off_from, on_from, writes, fieldVars, sample_size, localVars, now, held, trig_level, echo,
                    io_touched, low_reads, outcome, result, calls, temperature0,
                    pre, used, conv >>

\* the first write of a pulse addressed to the echo pin
TrigLowWrongPin ==
    /\ pc = "trig_low"
    /\ trig_level' = LOW
    /\ writes' = writes + 1
    /\ now' \in Clock
    /\ pc' = "trig_high"
    /\ last_io' = [op |-> "write", pin |-> echo_pin, level |-> LOW]
    /\ UNCHANGED << concVars, poll_phase, off_from, on_from, fieldVars, sample_size, localVars,
                    held, echo, io_touched, low_reads, outcome, result, calls,
                    temperature0, pre, used, conv >>

\* lines 85-86: trigger LOW, sleep(sample_wait)
TrigLow ==
    /\ pc = "trig_low"
    /\ trig_level' = LOW
    /\ writes' = writes + 1
    /\ now' \in Clock
    /\ pc' = "trig_high"
    /\ last_io' = [op |-> "write", pin |-> trig_pin, level |-> LOW]
    /\ UNCHANGED << concVars, poll_phase, off_from, on_from, fieldVars, sample_size, localVars, held, echo, io_touched,
                    low_reads, outcome, result, calls, temperature0, pre, used, conv >>

\* the HIGH write of the pulse left out
TrigHighSkipped ==
    /\ pc = "trig_high"
    /\ pc' = "trig_end"
    /\ UNCHANGED << concVars, poll_phase, last_io, off_from, on_from, writes, fieldVars,
                    sample_size, localVars, now, held, trig_level, echo, io_touched,
                    low_reads, outcome, result, calls, temperature0, pre, used, conv >>

\* lines 87-88: trigger HIGH, sleep(0.00001)
TrigHigh ==
    /\ pc = "trig_high"
    /\ trig_level' = HIGH
    /\ writes' = writes + 1
    /\ pc' = "trig_end"
    /\ last_io' = [op |-> "write", pin |-> trig_pin, level |-> HIGH]
    /\ UNCHANGED << concVars, poll_phase, off_from, on_from, fieldVars, sample_size, localVars, now, held, echo, io_touched,
                    low_reads, outcome, result, calls, temperature0, pre, used, conv >>

\* the trailing LOW write of the pulse left out
TrigEndLeavesHigh ==
    /\ pc = "trig_end"
    /\ echo_status_counter' = 1
    /\ low_reads' = 0
    /\ pc' = "low_wait"
    /\ UNCHANGED << concVars, poll_phase, last_io, off_from, on_from, writes, fieldVars,
                    sample_size, speed_of_sound, sample, distance_reading,
                    sonar_signal_off, sonar_signal_on, now, held, trig_level, echo,
                    io_touched, outcome, result, calls, temperature0, pre, used,
                    conv >>

\* lines 89-90: trigger LOW, echo_status_counter = 1
TrigEnd ==
    /\ pc = "trig_end"
    /\ trig_level' = LOW
    /\ writes' = writes + 1
    /\ echo_status_counter' = 1
    /\ low_reads' = 0
    /\ pc' = "low_wait"
    /\ last_io' = [op |-> "write", pin |-> trig_pin, level |-> LOW]
    /\ UNCHANGED << concVars, poll_phase, off_from, on_from, fieldVars, sample_size, speed_of_sound, sample, distance_reading,
                    sonar_signal_off, sonar_signal_on, now, held, echo, io_touched,
                    outcome, result, calls, temperature0, pre, used, conv >>

\* lines 91-94: the echo pin reads 0 and the counter is below the bound
LowPollLow ==
    /\ pc = "low_wait"
    /\ echo' = LOW
    /\ low_reads' = low_reads + 1
    /\ echo_status_counter < EchoPollLimit
    /\ \E t \in Clock : now' = t /\ sonar_signal_off' = t
    /\ echo_status_counter' = echo_status_counter + 1
    /\ last_io' = [op |-> "read", pin |-> echo_pin, level |-> LOW]
    /\ off_from' = distance_reading
    /\ UNCHANGED << concVars, poll_phase, on_from, writes, fieldVars, pc, sample_size, speed_of_sound, sample,
                    distance_reading, sonar_signal_on, held, trig_level, io_touched,
                    outcome, result, calls, temperature0, pre, used, conv >>

\* the timeout raised without the block's exit releasing the pins
LowPollTimeoutLeak ==
    /\ pc = "low_wait"
    /\ echo' = LOW
    /\ low_reads' = low_reads + 1
    /\ ~(echo_status_counter < EchoPollLimit)
    /\ pc' = "idle"
    /\ outcome' = "SystemError"
    /\ result' = NoValue
    /\ speed_of_sound' = 0
    /\ echo_status_counter' = 0
    /\ sonar_signal_off' = Unbound /\ sonar_signal_on' = Unbound
    /\ last_io' = [op |-> "read", pin |-> echo_pin, level |-> LOW]
    /\ off_from' = Unbound /\ on_from' = Unbound
    /\ UNCHANGED << concVars, poll_phase, writes, fieldVars, sample_size, sample, distance_reading, now,
                    held, trig_level, io_touched, calls, temperature0, pre, used,
                    conv >>

\* the timed-out sample skipped, the batch continued with the next pulse
LowPollTimeoutSkip ==
    /\ pc = "low_wait"
    /\ echo' = LOW
    /\ low_reads' = low_reads + 1
    /\ ~(echo_status_counter < EchoPollLimit)
    /\ echo_status_counter' = 0
    /\ pc' = "for"
    /\ last_io' = [op |-> "read", pin |-> echo_pin, level |-> LOW]
    /\ UNCHANGED << concVars, poll_phase, off_from, on_from, writes, fieldVars, sample_size, speed_of_sound, sample,
                    distance_reading, sonar_signal_off, sonar_signal_on, now, held,
                    trig_level, io_touched, outcome, result, calls, temperature0,
                    pre, used, conv >>

\* lines 91, 95-96: the echo pin reads 0 and the counter is at the bound
LowPollTimeout ==
    /\ pc = "low_wait"
    /\ echo' = LOW
    /\ low_reads' = low_reads + 1
    /\ ~(echo_status_counter < EchoPollLimit)
    /\ LeaveBlock("SystemError", NoValue)
    /\ last_io' = [op |-> "read", pin |-> echo_pin, level |-> LOW]
    /\ UNCHANGED << concVars, writes, fieldVars, sample_size, sample, distance_reading, now,
                    trig_level, io_touched, calls, temperature0, pre, used, conv >>

\* line 91: the echo pin reads 1, the loop is left.  echo_status_counter is not
\* read again before line 90 assigns it; the model drops its value here.
LowPollHigh ==
    /\ pc = "low_wait"
    /\ echo' = HIGH
    /\ low_reads' = low_reads + 1
    /\ echo_status_counter' = 0
    /\ pc' = "high_wait"
    /\ last_io' = [op |-> "read", pin |-> echo_pin, level |-> HIGH]
    /\ UNCHANGED << concVars, poll_phase, off_from, on_from, writes, fieldVars, sample_size, speed_of_sound, sample, distance_reading,
                    sonar_signal_off, sonar_signal_on, now, held, trig_level,
                    io_touched, outcome, result, calls, temperature0, pre, used, conv >>

\* lines 97-98: the echo pin reads 1
HighPollHigh ==
    /\ pc = "high_wait"
    /\ echo' = HIGH
    /\ low_reads' = 0
    /\ \E t \in Clock : now' = t /\ sonar_signal_on' = t
    /\ last_io' = [op |-> "read", pin |-> echo_pin, level |-> HIGH]
    /\ on_from' = distance_reading
    /\ poll_phase' = 1 - poll_phase
    /\ UNCHANGED << concVars, off_from, writes, fieldVars, pc, sample_size, speed_of_sound, sample,
                    distance_reading, echo_status_counter, sonar_signal_off, held,
                    trig_level, io_touched, outcome, result, calls, temperature0,
                    pre, used, conv >>

\* line 97: the echo pin reads 0, the loop is left
HighPollLow ==
    /\ pc = "high_wait"
    /\ echo' = LOW
    /\ low_reads' = 0
    /\ pc' = "compute"
    /\ last_io' = [op |-> "read", pin |-> echo_pin, level |-> LOW]
    /\ poll_phase' = 0
    /\ UNCHANGED << concVars, off_from, on_from, writes, fieldVars, sample_size, localVars, now, held, trig_level,
                    io_touched, outcome, result, calls, temperature0, pre, used, conv >>

\* lines 99-101
Compute ==
    /\ pc = "compute"
    /\ sonar_signal_on # Unbound /\ sonar_signal_off # Unbound
    /\ sample' = Append(sample,
                        DistanceCm(sonar_signal_on, sonar_signal_off, speed_of_sound))
    /\ pc' = "for"
    /\ UNCHANGED << concVars, poll_phase, last_io, off_from, on_from, writes, fieldVars, sample_size, speed_of_sound, distance_reading,
                    echo_status_counter, sonar_signal_off, sonar_signal_on, now, held,
                    trig_level, echo, io_touched, low_reads, outcome, result, calls,
                    temperature0, pre, used, conv >>

\* line 99 reads a timestamp that no loop of this call has assigned
ComputeUnbound ==
    /\ pc = "compute"
    /\ (sonar_signal_on = Unbound \/ sonar_signal_off = Unbound)
    /\ LeaveBlock("UnboundLocalError", NoValue)
    /\ UNCHANGED << concVars, last_io, writes, fieldVars, sample_size, sample, distance_reading, now,
                    trig_level, echo, io_touched, low_reads, calls, temperature0,
                    pre, used, conv >>

\* lines 102-106
Return ==
    /\ pc = "sort"
    /\ LeaveBlock("returned", << Sorted(sample)[MedianIndex(sample_size) + 1] >>)
    /\ UNCHANGED << concVars, last_io, writes, fieldVars, sample_size, sample, distance_reading, now,
                    trig_level, echo, io_touched, low_reads, calls, temperature0,
                    pre, used, conv >>

----------------------------------------------------------------------------
(* The conversion helpers, lines 108-126 *)

Helper(op, median_reading, hole_depth, value) ==
    /\ pc = "idle"
    /\ conv' = [op |-> op, median_reading |-> median_reading,
                hole_depth |-> hole_depth, value |-> value]
    /\ UNCHANGED << concVars, poll_phase, last_io, off_from, on_from, writes, fieldVars, pc, sample_size, localVars, now, held, trig_level,
                    echo, io_touched, low_reads, outcome, result, calls,
                    temperature0, pre, used >>

\* lines 108-111
depth_metric ==
    \E m \in Readings, h \in HoleDepths :
        Helper("depth_metric", m, h, DepthMetric(m, h, round_to))

\* lines 113-116
depth_imperial ==
    \E m \in Readings, h \in HoleDepths :
        Helper("depth_imperial", m, h, DepthImperial(m, h, round_to))

\* lines 118-121
distance_metric ==
    \E m \in Readings : Helper("distance_metric", m, 0, DistanceMetric(m, round_to))

\* lines 123-126
distance_imperial ==
    \E m \in Readings : Helper("distance_imperial", m, 0, DistanceImperial(m, round_to))

----------------------------------------------------------------------------

Next ==
    \/ Construct
    \/ Call
    \/ UnitImperial
    \/ UnitMetric
    \/ UnitWrong
    \/ Speed
    \/ Acquire
    \/ ForNext
    \/ ForDone
    \/ TrigLow
    \/ TrigHigh
    \/ TrigEnd
    \/ LowPollLow
    \/ LowPollTimeout
    \/ LowPollHigh
    \/ HighPollHigh
    \/ HighPollLow
    \/ Compute
    \/ ComputeUnbound
    \/ Return
    \/ depth_metric
    \/ depth_imperial
    \/ distance_metric
    \/ distance_imperial

Spec == Init /\ [][Next]_vars

\* the calling thread is never suspended for ever: when a step of the program
\* is possible, one is eventually taken (the echo level it reads stays free)
FairSpec == Spec /\ WF_vars(Next)

----------------------------------------------------------------------------
(* Two callers of raw_distance on one metric Measurement, lines 39-106.      *)
(* The order of the pin operations of each caller is kept; the timestamps    *)
(* and the count of low reads are left out: a low read may raise the timeout *)
(* at any count.  raw_distance takes no lock, and GPIO(self.pins) is taken   *)
(* to succeed whether or not another block has the pair acquired.            *)

Other(t) == CHOOSE u \in Threads : u # t

\* the object after Measurement(36, 13), no call made
InitTwo ==
    /\ trig_pin = 36 /\ echo_pin = 13 /\ temperature = 20 * TempScale
    /\ unit = "metric" /\ round_to = 1
    /\ pins = << << 36, "out" >>, << 13, "in" >> >>
    /\ pc = "idle"
    /\ sample_size = 0
    /\ speed_of_sound = 0 /\ sample = << >> /\ distance_reading = 0
    /\ echo_status_counter = 0
    /\ sonar_signal_off = Unbound /\ sonar_signal_on = Unbound
    /\ now = 0
    /\ held = FALSE
    /\ trig_level = LOW
    /\ echo = LOW
    /\ io_touched = FALSE
    /\ low_reads = 0
    /\ writes = 0
    /\ outcome = "constructed" /\ result = NoValue
    /\ calls = 0
    /\ temperature0 = 20 * TempScale
    /\ pre = NoFields
    /\ used = << >>
    /\ conv = NoConv
    /\ poll_phase = 0
    /\ last_io = NoIo
    /\ off_from = Unbound /\ on_from = Unbound
    /\ ConcInit

\* lines 39, 72-81: a caller enters raw_distance, the unit is 'metric'
cCall(t) ==
    /\ cpc[t] = "idle"
    /\ ccount[1] + ccount[2] < MaxCalls
    /\ \E n \in 1..MaxSampleSize : cleft' = [cleft EXCEPT ![t] = n]
    /\ ccount' = [ccount EXCEPT ![t] = @ + 1]
    /\ cforeign' = [cforeign EXCEPT ![t] = FALSE]
    /\ covl' = (covl \/ cpc[Other(t)] # "idle")
    /\ cpc' = [cpc EXCEPT ![t] = "acquire"]
    /\ UNCHANGED << seqVars, cheld, ctrig >>

\* line 83: the caller's with block is entered
cAcquire(t) ==
    /\ cpc[t] = "acquire"
    /\ cheld' = [cheld EXCEPT ![t] = TRUE]
    /\ cpc' = [cpc EXCEPT ![t] = "for"]
    /\ UNCHANGED << seqVars, cleft, ctrig, cforeign, ccount, covl >>

\* line 84: the next iteration starts
cForNext(t) ==
    /\ cpc[t] = "for"
    /\ cleft[t] > 0
    /\ cpc' = [cpc EXCEPT ![t] = "trig_low"]
    /\ UNCHANGED << seqVars, cheld, cleft, ctrig, cforeign, ccount, covl >>

\* a digital_write of the caller on the trigger pin
cWrite(t, at, level, next) ==
    /\ cpc[t] = at
    /\ ctrig' = level
    /\ cforeign' = [cforeign EXCEPT
                      ![Other(t)] = @ \/ cpc[Other(t)] \in {"low_wait", "high_wait"}]
    /\ cpc' = [cpc EXCEPT ![t] = next]
    /\ UNCHANGED << seqVars, cheld, cleft, ccount, covl >>

\* lines 85-86
cTrigLow(t) == cWrite(t, "trig_low", LOW, "trig_high")

\* lines 87-88
cTrigHigh(t) == cWrite(t, "trig_high", HIGH, "trig_end")

\* lines 89-90
cTrigEnd(t) == cWrite(t, "trig_end", LOW, "low_wait")

\* the caller leaves its with block: its pins are released
cLeave(t) ==
    /\ cheld' = [cheld EXCEPT ![t] = FALSE]
    /\ cpc' = [cpc EXCEPT ![t] = "idle"]
    /\ cleft' = [cleft EXCEPT ![t] = 0]

\* the caller leaves with the pins still acquired
cLeaveLeak(t) ==
    /\ cpc' = [cpc EXCEPT ![t] = "idle"]
    /\ cleft' = [cleft EXCEPT ![t] = 0]
    /\ UNCHANGED cheld

\* the timeout raised without the block's exit releasing the pins
cLowPollTimeoutLeak(t) ==
    /\ cpc[t] = "low_wait"
    /\ cLeaveLeak(t)
    /\ UNCHANGED << seqVars, ctrig, cforeign, ccount, covl >>

\* lines 91, 95-96: the echo pin reads 0 at the bound, SystemError
cLowPollTimeout(t) ==
    /\ cpc[t] = "low_wait"
    /\ cLeave(t)
    /\ UNCHANGED << seqVars, ctrig, cforeign, ccount, covl >>

\* line 91: the echo pin reads 1 (a read of 0 below the bound changes nothing here)
cLowPollHigh(t) ==
    /\ cpc[t] = "low_wait"
    /\ cpc' = [cpc EXCEPT ![t] = "high_wait"]
    /\ UNCHANGED << seqVars, cheld, cleft, ctrig, cforeign, ccount, covl >>

\* lines 97-101: the echo pin reads 0, the sample is appended
cHighPollLow(t) ==
    /\ cpc[t] = "high_wait"
    /\ cleft' = [cleft EXCEPT ![t] = @ - 1]
    /\ cpc' = [cpc EXCEPT ![t] = "for"]
    /\ UNCHANGED << seqVars, cheld, ctrig, cforeign, ccount, covl >>

\* lines 84, 102-106: the loop is over, the median is returned
cReturn(t) ==
    /\ cpc[t] = "for"
    /\ cleft[t] = 0
    /\ cLeave(t)
    /\ UNCHANGED << seqVars, ctrig, cforeign, ccount, covl >>

NextTwo ==
    \/ \E t \in Threads : cCall(t)
    \/ \E t \in Threads : cAcquire(t)
    \/ \E t \in Threads : cForNext(t)
    \/ \E t \in Threads : cTrigLow(t)
    \/ \E t \in Threads : cTrigHigh(t)
    \/ \E t \in Threads : cTrigEnd(t)
    \/ \E t \in Threads : cLowPollTimeout(t)
    \/ \E t \in Threads : cLowPollHigh(t)
    \/ \E t \in Threads : cHighPollLow(t)
    \/ \E t \in Threads : cReturn(t)

SpecTwo == InitTwo /\ [][NextTwo]_vars

----------------------------------------------------------------------------
(* Claims *)

ValidUnits == {"metric", "imperial"}

\* number of entries of a batch that satisfy a test against v
Below(s, v) == Cardinality({ i \in 1..Len(s) : s[i] < v })
AtMost(s, v) == Cardinality({ i \in 1..Len(s) : s[i] <= v })

\* C1: a raw_distance call that returns, returns the element of rank
\* sample_size // 2 (0-based) of the batch in ascending order: a member of the
\* batch, at most sample_size // 2 entries are smaller and at least
\* sample_size // 2 + 1 entries are not larger; for an even sample_size that is
\* the upper of the two middle elements, never their average.
C1_MedianIsUpperMiddle ==
    outcome = "returned" =>
        /\ Len(sample) = sample_size
        /\ Len(result) = 1
        /\ \E i \in 1..Len(sample) : sample[i] = result[1]
        /\ Below(sample, result[1]) <= sample_size \div 2
        /\ AtMost(sample, result[1]) >= sample_size \div 2 + 1

\* an even batch, not in ascending order, whose two middle elements differ:
\* the larger one is returned
C1_Witness ==
    /\ outcome = "returned"
    /\ sample_size = 2
    /\ sample[1] > sample[2]
    /\ result = << sample[1] >>

\* C2: a low-phase wait reads the echo pin at most 1000 times; a read of 1, on
\* any read up to the 1000th, ends the wait without error; the 1000th read of 0
\* raises SystemError; an earlier read of 0 keeps polling.
C2_LowWaitBounded ==
    [][ pc = "low_wait" =>
          /\ low_reads' = low_reads + 1
          /\ low_reads' <= 1000
          /\ (echo' = HIGH => pc' = "high_wait" /\ outcome' = "running")
          /\ (echo' = LOW /\ low_reads' = 1000 =>
                 pc' = "idle" /\ outcome' = "SystemError")
          /\ (echo' = LOW /\ low_reads' < 1000 =>
                 pc' = "low_wait" /\ outcome' = "running") ]_vars

\* the 1000th read found the pin low: the call has failed
C2_Witness == outcome = "SystemError" /\ low_reads = 1000 /\ echo = LOW

\* the 1000th read found the pin high: the wait has ended without error
C2_HighOnLastRead == pc = "high_wait" /\ low_reads = 1000 /\ outcome = "running"

\* C3: raw_distance on an object whose unit is neither 'metric' nor 'imperial'
\* raises ValueError without acquiring, writing or reading any pin, and leaves
\* the stored temperature as it was.
C3_WrongUnitNoPinAccess ==
    (calls > 0 /\ unit \notin ValidUnits) =>
        /\ pc \in {"unit", "idle"}
        /\ ~io_touched /\ ~held /\ writes = 0 /\ low_reads = 0
        /\ temperature = pre.temperature
        /\ (pc = "idle" => outcome = "ValueError" /\ result = NoValue)

C3_Witness ==
    /\ outcome = "ValueError" /\ unit = "kelvin" /\ calls = 2
    /\ ~io_touched /\ temperature = pre.temperature

\* C4 as stated: no Measurement with a unit outside {'metric', 'imperial'} is
\* ever constructed.
C4_ConstructionRejectsUnit == ~(outcome = "constructed" /\ unit \notin ValidUnits)

\* C4 amended: constructing with a unit outside {'metric', 'imperial'} succeeds
\* and touches no pin; the ValueError is raised by every raw_distance call on
\* the object.
C4_UnitCheckedAtCall ==
    (pc # "new" /\ unit \notin ValidUnits) =>
        IF calls = 0
        THEN pc = "idle" /\ outcome = "constructed" /\ ~io_touched /\ ~held
        ELSE outcome \in {"running", "ValueError"}
                /\ (pc = "idle" => outcome = "ValueError")

C4_Witness ==
    /\ unit = "kelvin" /\ calls = 1 /\ pc = "idle" /\ outcome = "ValueError"
    /\ pre.unit = "kelvin"

\* C5: every raw_distance call on one imperial object computes the speed of
\* sound from the same Celsius temperature.
C5_SameTemperatureEveryCall ==
    unit = "imperial" => \A i \in 1..Len(used) : used[i] = used[1]

\* C6: a call that has acquired the pins has released them when it is over,
\* by return or by exception; the caller never sees the result or the error of
\* a call while the pins are held.
C6_PinsReleasedOnExit ==
    /\ (outcome # "running" => ~held)
    /\ (pc = "idle" => ~held)
    /\ (held => pc \in {"for", "trig_low", "trig_high", "trig_end", "low_wait",
                        "high_wait", "compute", "sort"})

\* an echo timeout in the second sample, pins acquired before and released now
C6_Witness ==
    /\ outcome = "SystemError" /\ io_touched /\ ~held
    /\ distance_reading = 1 /\ writes = 6

\* C7: after a raw_distance call the fields of the object are what they were
\* before the call.
C7_FieldsUnchanged == (calls > 0 /\ pc = "idle") => Fields = pre

\* C8: the 1000th low read of a sample raises at once: the call is over with
\* SystemError and no value, the batch holds only the samples completed
\* before, and until the next call no trigger write and no echo read follows.
C8_TimeoutAbortsCall ==
    /\ [](outcome = "SystemError" =>
            /\ pc = "idle" /\ result = NoValue
            /\ distance_reading < sample_size
            /\ Len(sample) = distance_reading
            /\ writes = 3 * (distance_reading + 1)
            /\ low_reads = 1000)
    /\ [][ /\ (pc = "low_wait" /\ echo' = LOW /\ low_reads' = 1000 =>
                  /\ outcome' = "SystemError" /\ result' = NoValue
                  /\ sample' = sample /\ writes' = writes)
           /\ (outcome = "SystemError" /\ outcome' = "SystemError" =>
                  /\ writes' = writes /\ low_reads' = low_reads
                  /\ trig_level' = trig_level /\ echo' = echo
                  /\ sample' = sample /\ result' = NoValue) ]_vars

\* the second sample of a call timed out after the first was collected
C8_Witness ==
    /\ outcome = "SystemError" /\ result = NoValue
    /\ distance_reading = 1 /\ Len(sample) = 1 /\ sample_size = 3

\* C9: the temperature line 80 reads is (T - 32) * 0.5556 of the temperature T
\* given to the constructor when unit is 'imperial', and T when it is 'metric'.
C9_CelsiusOfConfigured ==
    \A i \in 1..Len(used) :
        used[i] = IF unit = "imperial"
                  THEN (temperature0 \div TempScale - 32) * 5556
                  ELSE temperature0

\* C10: a helper call returns the rounded value of its formula and changes no
\* field, acquires, writes and reads no pin.
C10_HelpersPure ==
    [][ (conv' # conv /\ conv'.op # "none") =>
          LET m == conv'.median_reading
              h == conv'.hole_depth
          IN  /\ conv'.value =
                    CASE conv'.op = "distance_metric" -> Round(m * 1000, round_to)
                      [] conv'.op = "distance_imperial" -> Round(m * 394, round_to)
                      [] conv'.op = "depth_metric" ->
                             Round(h * 1000 - m * 1000, round_to)
                      [] conv'.op = "depth_imperial" ->
                             Round(h * 1000 - m * 394, round_to)
              /\ Fields' = Fields
              /\ held' = held /\ io_touched' = io_touched
              /\ writes' = writes /\ low_reads' = low_reads
              /\ trig_level' = trig_level /\ echo' = echo ]_vars

\* depth_imperial(171.45 cm, 100 in) with round_to = 1 is 32.4 in
C10_Witness ==
    /\ conv.op = "depth_imperial" /\ round_to = 1
    /\ conv.median_reading = 171450 /\ conv.hole_depth = 100000
    /\ conv.value = 32400000

\* C11: the high-phase wait ends whatever the echo pin does: a call that waits
\* for the echo pin to return low eventually leaves that wait, by seeing the
\* pin low or by a timeout error.
C11_HighWaitEnds == (pc = "high_wait") ~> (pc # "high_wait")

\* the positions of a call inside the with block
InBlock == {"for", "trig_low", "trig_high", "trig_end", "low_wait", "high_wait",
            "compute", "sort"}

\* the positions of a call at which a pin is written or read
AtPin == {"trig_low", "trig_high", "trig_end", "low_wait", "high_wait"}

\* this step reads the echo pin
ReadStep ==
    /\ last_io'.op = "read"
    /\ (last_io' # last_io \/ low_reads' # low_reads \/ poll_phase' # poll_phase)

\* this step writes the trigger pin
WriteStep == writes' = writes + 1

\* C12: each sample writes the trigger LOW, HIGH, LOW in that order, the echo
\* pin of a sample is read only after its trailing LOW write, a call that
\* returns has made 3 * sample_size trigger writes, and the waits of a sample
\* start only when every earlier sample is complete.
C12_TriggerPulseOrder ==
    /\ [](/\ (pc = "trig_high" =>
                 trig_level = LOW /\ writes = 3 * distance_reading + 1)
          /\ (pc = "trig_end" =>
                 trig_level = HIGH /\ writes = 3 * distance_reading + 2)
          /\ (pc \in {"low_wait", "high_wait", "compute"} =>
                 /\ trig_level = LOW /\ writes = 3 * distance_reading + 3
                 /\ Len(sample) = distance_reading)
          /\ (outcome = "returned" => writes = 3 * sample_size))
    /\ [][ /\ (WriteStep =>
                  /\ last_io'.op = "write"
                  /\ last_io'.level = (IF writes % 3 = 1 THEN HIGH ELSE LOW)
                  /\ trig_level' = last_io'.level)
           /\ (writes' # writes => WriteStep \/ writes' = 0)
           /\ (ReadStep =>
                  /\ writes = 3 * (distance_reading + 1)
                  /\ trig_level = LOW
                  /\ writes' = writes) ]_vars

\* a call of three samples has returned after nine trigger writes
C12_Witness ==
    outcome = "returned" /\ sample_size = 3 /\ writes = 9 /\ trig_level = LOW

\* C13: the batch is empty when the pins are acquired, grows only by the
\* distance of the sample just completed, appended at the end, and holds
\* exactly sample_size entries when the median is selected; nothing of an
\* earlier call is in it.
C13_FreshBatch ==
    /\ [](/\ (pc = "acquire" => sample = << >>)
          /\ (pc = "for" => Len(sample) = distance_reading + 1)
          /\ (pc \in InBlock \ {"for", "sort"} => Len(sample) = distance_reading)
          /\ (pc = "sort" \/ outcome = "returned" => Len(sample) = sample_size))
    /\ [][ sample' # sample =>
             \/ pc = "speed" /\ sample' = << >>
             \/ /\ pc = "compute"
                /\ sample' = Append(sample,
                                    DistanceCm(sonar_signal_on, sonar_signal_off,
                                               speed_of_sound)) ]_vars

\* a second call, of one sample, has returned with a batch of one entry
C13_Witness ==
    /\ calls = 2 /\ outcome = "returned"
    /\ sample_size = 1 /\ Len(sample) = 1 /\ result = << sample[1] >>

\* C14: every write addresses the configured trigger pin, every read the
\* configured echo pin, and a pin is written or read only while the pair is
\* acquired.
C14_PinDiscipline ==
    /\ [](/\ (last_io.op = "write" =>
                 /\ last_io.pin = trig_pin /\ last_io.pin # echo_pin
                 /\ pins[1] = << last_io.pin, "out" >>)
          /\ (last_io.op = "read" =>
                 /\ last_io.pin = echo_pin /\ last_io.pin # trig_pin
                 /\ pins[2] = << last_io.pin, "in" >>)
          /\ (pc \in AtPin => held))
    /\ [][ (WriteStep \/ ReadStep) => held /\ pc \in AtPin ]_vars

\* the echo pin has just been read high, inside the block
C14_Witness ==
    /\ pc = "high_wait" /\ held
    /\ last_io = [op |-> "read", pin |-> 13, level |-> HIGH]
    /\ trig_pin = 36

\* C16: when the elapsed time of a sample is computed, both timestamps were
\* assigned by the wait loops of that same sample.
C16_TimestampsOfSameSample ==
    pc = "compute" => off_from = distance_reading /\ on_from = distance_reading

\* C17: no distance of a batch, and no value returned, is negative.
C17_NonNegative ==
    /\ \A i \in 1..Len(sample) : sample[i] >= 0
    /\ (Len(result) = 1 => result[1] >= 0)

\* C18: the trigger is HIGH only between the HIGH write of a pulse and the LOW
\* write that follows; a call that leaves the block, by return or by exception,
\* leaves the trigger LOW after whole pulses.
C18_TriggerRestsLow ==
    /\ (trig_level = HIGH =>
           pc = "trig_end" /\ held /\ last_io.op = "write" /\ last_io.level = HIGH)
    /\ (pc \in InBlock \ {"trig_end"} => trig_level = LOW)
    /\ (outcome \in {"returned", "SystemError", "UnboundLocalError"} =>
           /\ trig_level = LOW
           /\ writes > 0 /\ writes % 3 = 0)

\* a call left by an exception after one pulse
C18_Witness ==
    outcome = "UnboundLocalError" /\ trig_level = LOW /\ writes = 3 /\ ~held

====
